---- MODULE Spec2Model ----
(***************************************************************************)
(* Positivity-Exchange: the terminal input editor (tui/src/state.rs and    *)
(* tui/src/app/mod.rs), its two host loops (tui/src/cli/mod.rs and         *)
(* tui/src/app/mod.rs) and the message codec (comms/src/command.rs and     *)
(* comms/src/event.rs).                                                    *)
(*                                                                         *)
(* A String is modelled as the sequence of its chars; every char carries   *)
(* its UTF-8 width, so that byte offsets (String::len, String::insert) and *)
(* char offsets (chars().take / skip) are different numbers, as in Rust.   *)
(***************************************************************************)
EXTENDS Integers, Sequences, FiniteSets, TLC

\* ----------------------------------------------------------------- bounds
\* most key events the key source delivers to the two editors
MaxKeys == 6
\* most key events the key source delivers to the cli main_loop
MaxHostKeys == 4
\* most ticks the app main_loop's ticker delivers
MaxTicks == 2

\* ------------------------------------------------------------------ chars
\* The chars the key source can deliver: 'e', 'q', 'c' (the chars the
\* handlers match on) and U+00E9, a char of two UTF-8 bytes.
Chars == {"e", "q", "c", "eacute"}

\* char::len_utf8, as String::len and String::insert count it
len_utf8(ch) == IF ch = "eacute" THEN 2 ELSE 1

\* byte offset of the char with index k (0-based) of s; k = Len(s): String::len
RECURSIVE byte_offset(_, _)
byte_offset(s, k) ==
    IF k = 0 THEN 0 ELSE byte_offset(s, k - 1) + len_utf8(s[k])

\* String::len: the length in bytes
String_len(s) == byte_offset(s, Len(s))

\* str::is_char_boundary: idx is the start of a char or the end of the string
is_char_boundary(s, idx) == \E k \in 0..Len(s) : byte_offset(s, k) = idx

\* String::insert(idx, ch) for idx on a char boundary (it panics otherwise)
String_insert(s, idx, ch) ==
    LET k == CHOOSE j \in 0..Len(s) : byte_offset(s, j) = idx
    IN  SubSeq(s, 1, k) \o <<ch>> \o SubSeq(s, k + 1, Len(s))

\* s.chars().take(n).collect()
chars_take(s, n) == SubSeq(s, 1, IF n < Len(s) THEN n ELSE Len(s))

\* s.chars().skip(n).collect()
chars_skip(s, n) == SubSeq(s, n + 1, Len(s))

\* usize::saturating_sub(1)
saturating_sub(n) == IF n = 0 THEN 0 ELSE n - 1

\* usize::saturating_add(1); usize::MAX is out of reach of MaxLen
saturating_add(n) == n + 1

\* usize::clamp(lo, hi)
clamp(n, lo, hi) == IF n < lo THEN lo ELSE IF n > hi THEN hi ELSE n

\* ------------------------------------------------------------- key events
NamedKeys == {"Enter", "Backspace", "Left", "Right", "Esc", "Tab"}

\* crossterm KeyCode: Char(c) is the char itself, the others by name
KeyCodes == Chars \cup NamedKeys

\* crossterm KeyEventKind
KeyEventKinds == {"Press", "Repeat", "Release"}

\* crossterm KeyEvent: code, modifiers (only CONTROL is read), kind
KeyEvents == [code : KeyCodes, control : BOOLEAN, kind : KeyEventKinds]

\* a key pressed, or released, without modifiers
Press(code) == [code |-> code, control |-> FALSE, kind |-> "Press"]

Release(code) == [code |-> code, control |-> FALSE, kind |-> "Release"]

\* -------------------------------------------------------------- variables
VARIABLES
    app,          \* app/mod.rs App (without its terminator)
    app_out,      \* how the last handle_key_event call ended
    interrupt,    \* what the terminator has broadcast, per receiver
    st,           \* state.rs App
    st_out,       \* how the last handle_event call ended
    cli_pc,       \* where cli::main_loop is
    cli_todo,     \* the statements handle_key_event has still to run
    app_pc,       \* where app::main_loop is
    write_guards, \* the tasks holding an RwLockWriteGuard of the App
    read_guards,  \* the tasks holding an RwLockReadGuard of the App
    keys_left,    \* the key events the key source has still to deliver
    returned,     \* the Interrupted each main_loop returned, if any
    codec,        \* the message being encoded or decoded
    unrendered    \* the handle_key_event calls made since the last render

editor_vars == <<app, app_out, interrupt, st, st_out>>

host_vars ==
    <<cli_pc, cli_todo, app_pc, write_guards, read_guards, keys_left, returned>>

vars == <<editor_vars, host_vars, codec, unrendered>>

\* ----------------------------------------------------- app/mod.rs editor
\* App::new
App_new ==
    [input |-> <<>>, input_mode |-> "Normal", messages |-> <<>>,
     cursor_position |-> 0, timer |-> 0]

clamp_cursor(a, new_cursor_pos) == clamp(new_cursor_pos, 0, String_len(a.input))

move_cursor_left(a) ==
    [a EXCEPT !.cursor_position =
        clamp_cursor(a, saturating_sub(a.cursor_position))]

move_cursor_right(a) ==
    [a EXCEPT !.cursor_position =
        clamp_cursor(a, saturating_add(a.cursor_position))]

\* self.input.insert(self.cursor_position, new_char) panics unless the
\* cursor, read as a byte offset, is on a char boundary
enter_char_panics(a) == ~is_char_boundary(a.input, a.cursor_position)

\* self.input.insert(self.cursor_position, new_char)
input_insert(a, new_char) ==
    [a EXCEPT !.input = String_insert(a.input, a.cursor_position, new_char)]

enter_char(a, new_char) == move_cursor_right(input_insert(a, new_char))

\* self.input = before_char_to_delete.chain(after_char_to_delete).collect()
input_without_char(a) ==
    LET current_index == a.cursor_position
        from_left_to_current_index == current_index - 1
    IN  [a EXCEPT !.input =
            chars_take(a.input, from_left_to_current_index)
                \o chars_skip(a.input, current_index)]

delete_char(a) ==
    IF a.cursor_position # 0
    THEN move_cursor_left(input_without_char(a))
    ELSE a

reset_cursor(a) == [a EXCEPT !.cursor_position = 0]

\* a slip: the history is replaced by the new line
messages_push_replaces(a) == [a EXCEPT !.messages = <<a.input>>]

\* self.messages.push(self.input.clone())
messages_push(a) == [a EXCEPT !.messages = Append(a.messages, a.input)]

\* self.input.clear()
input_clear(a) == [a EXCEPT !.input = <<>>]

\* a slip: the line is pushed after the buffer was cleared
submit_message_clears_first(a) == reset_cursor(messages_push(input_clear(a)))

submit_message(a) == reset_cursor(input_clear(messages_push(a)))

\* What one handle_key_event call does: the editor after it, whether it
\* called terminator.terminate(Interrupted::UserInt), whether it panicked.
\* (String::insert checks the index before it changes the string, so a
\* panicking call leaves the editor as it was.)
Returned(a, terminate) == [app |-> a, terminate |-> terminate, panicked |-> FALSE]

Panicked(a) == [app |-> a, terminate |-> FALSE, panicked |-> TRUE]

\* a slip: the Normal arm's `_` falls into the Editing arms
handle_key_event_ungated(a, key) ==
    IF a.input_mode = "Normal" /\ key.code = "e"
    THEN Returned([a EXCEPT !.input_mode = "Editing"], FALSE)
    ELSE IF a.input_mode = "Normal" /\ key.code = "q" THEN Returned(a, TRUE)
    ELSE IF a.input_mode = "Normal" /\ key.code = "c" /\ key.control
    THEN Returned(a, TRUE)
    ELSE IF key.kind = "Press"
    THEN IF key.code = "Enter" THEN Returned(submit_message(a), FALSE)
         ELSE IF key.code \in Chars
              THEN IF enter_char_panics(a) THEN Panicked(a)
                   ELSE Returned(enter_char(a, key.code), FALSE)
         ELSE IF key.code = "Backspace" THEN Returned(delete_char(a), FALSE)
         ELSE IF key.code = "Left" THEN Returned(move_cursor_left(a), FALSE)
         ELSE IF key.code = "Right" THEN Returned(move_cursor_right(a), FALSE)
         ELSE IF key.code = "Esc" THEN Returned([a EXCEPT !.input_mode = "Normal"], FALSE)
         ELSE Returned(a, FALSE)
    ELSE Returned(a, FALSE)

\* a slip: the Editing arm without its `if key.kind == KeyEventKind::Press`
handle_key_event_any_kind(a, key) ==
    IF a.input_mode = "Normal"
    THEN IF key.code = "e" THEN Returned([a EXCEPT !.input_mode = "Editing"], FALSE)
         ELSE IF key.code = "q" THEN Returned(a, TRUE)
         ELSE IF key.code = "c" /\ key.control THEN Returned(a, TRUE)
         ELSE Returned(a, FALSE)
    ELSE IF key.code = "Enter" THEN Returned(submit_message(a), FALSE)
         ELSE IF key.code \in Chars
              THEN IF enter_char_panics(a) THEN Panicked(a)
                   ELSE Returned(enter_char(a, key.code), FALSE)
         ELSE IF key.code = "Backspace" THEN Returned(delete_char(a), FALSE)
         ELSE IF key.code = "Left" THEN Returned(move_cursor_left(a), FALSE)
         ELSE IF key.code = "Right" THEN Returned(move_cursor_right(a), FALSE)
         ELSE IF key.code = "Esc" THEN Returned([a EXCEPT !.input_mode = "Normal"], FALSE)
         ELSE Returned(a, FALSE)

handle_key_event(a, key) ==
    IF a.input_mode = "Normal"
    THEN IF key.code = "e" THEN Returned([a EXCEPT !.input_mode = "Editing"], FALSE)
         ELSE IF key.code = "q" THEN Returned(a, TRUE)
         ELSE IF key.code = "c" /\ key.control THEN Returned(a, TRUE)
         ELSE Returned(a, FALSE)
    ELSE IF key.kind = "Press"
    THEN IF key.code = "Enter" THEN Returned(submit_message(a), FALSE)
         ELSE IF key.code \in Chars
              THEN IF enter_char_panics(a) THEN Panicked(a)
                   ELSE Returned(enter_char(a, key.code), FALSE)
         ELSE IF key.code = "Backspace" THEN Returned(delete_char(a), FALSE)
         ELSE IF key.code = "Left" THEN Returned(move_cursor_left(a), FALSE)
         ELSE IF key.code = "Right" THEN Returned(move_cursor_right(a), FALSE)
         ELSE IF key.code = "Esc" THEN Returned([a EXCEPT !.input_mode = "Normal"], FALSE)
         ELSE Returned(a, FALSE)
    ELSE Returned(a, FALSE)

\* ------------------------------------------------------- state.rs editor
\* App::default
st_default ==
    [input |-> <<>>, input_mode |-> "Normal", messages |-> <<>>,
     cursor_position |-> 0]

\* a slip: this copy alone clamps to the length in chars
st_clamp_cursor_chars(a, new_cursor_pos) == clamp(new_cursor_pos, 0, Len(a.input))

st_clamp_cursor(a, new_cursor_pos) == clamp(new_cursor_pos, 0, String_len(a.input))

st_move_cursor_left(a) ==
    [a EXCEPT !.cursor_position =
        st_clamp_cursor(a, saturating_sub(a.cursor_position))]

st_move_cursor_right(a) ==
    [a EXCEPT !.cursor_position =
        st_clamp_cursor(a, saturating_add(a.cursor_position))]

st_enter_char_panics(a) == ~is_char_boundary(a.input, a.cursor_position)

st_enter_char(a, new_char) ==
    st_move_cursor_right(
        [a EXCEPT !.input = String_insert(a.input, a.cursor_position, new_char)])

st_delete_char(a) ==
    IF a.cursor_position # 0
    THEN LET current_index == a.cursor_position
             from_left_to_current_index == current_index - 1
         IN  st_move_cursor_left(
                 [a EXCEPT !.input =
                     chars_take(a.input, from_left_to_current_index)
                         \o chars_skip(a.input, current_index)])
    ELSE a

st_reset_cursor(a) == [a EXCEPT !.cursor_position = 0]

st_submit_message(a) ==
    st_reset_cursor([a EXCEPT !.messages = Append(a.messages, a.input),
                              !.input = <<>>])

\* What one handle_event call does: the editor after it and the Result it
\* returns ("Ok" for Ok(()), "Err" for Err(anyhow!("Quit"))), or a panic.
st_Result(a, result) == [app |-> a, result |-> result]

handle_event(a, key) ==
    IF a.input_mode = "Normal"
    THEN IF key.code = "e" THEN st_Result([a EXCEPT !.input_mode = "Editing"], "Ok")
         ELSE IF key.code = "q" THEN st_Result(a, "Err")
         ELSE st_Result(a, "Ok")
    ELSE IF key.kind = "Press"
    THEN IF key.code = "Enter" THEN st_Result(st_submit_message(a), "Ok")
         ELSE IF key.code \in Chars
              THEN IF st_enter_char_panics(a) THEN st_Result(a, "panicked")
                   ELSE st_Result(st_enter_char(a, key.code), "Ok")
         ELSE IF key.code = "Backspace" THEN st_Result(st_delete_char(a), "Ok")
         ELSE IF key.code = "Left" THEN st_Result(st_move_cursor_left(a), "Ok")
         ELSE IF key.code = "Right" THEN st_Result(st_move_cursor_right(a), "Ok")
         ELSE IF key.code = "Esc" THEN st_Result([a EXCEPT !.input_mode = "Normal"], "Ok")
         ELSE st_Result(a, "Ok")
    ELSE st_Result(a, "Ok")

\* ------------------------------------------------------------- terminator
Receivers == {"cli", "app"}

\* Terminator::terminate(reason): the reason is broadcast to every receiver
terminate(chan, reason) == [r \in Receivers |-> reason]

\* ---------------------------------------------------- the editor, driven
EditorInit ==
    /\ app = App_new
    /\ app_out = "new"
    /\ interrupt = [r \in Receivers |-> "none"]
    /\ st = st_default
    /\ st_out = "new"
    /\ cli_pc = "select"
    /\ cli_todo = <<>>
    /\ app_pc = "select"
    /\ write_guards = {}
    /\ read_guards = {}
    /\ returned = [r \in Receivers |-> "none"]
    /\ codec = [step |-> "start"]
    /\ unrendered = 0

Init == EditorInit /\ keys_left = MaxKeys

\* One key event, given to both editors. A panic ends the editor's thread.
AppKey(key) ==
    /\ app_out # "panicked"
    /\ LET r == handle_key_event(app, key)
       IN  /\ app' = r.app
           /\ app_out' = IF r.panicked THEN "panicked" ELSE "returned"
           /\ interrupt' = IF r.terminate THEN terminate(interrupt, "UserInt")
                           ELSE interrupt

StKey(key) ==
    /\ st_out # "panicked"
    /\ LET r == handle_event(st, key)
       IN  /\ st' = r.app
           /\ st_out' = r.result

KeyStep(key) ==
    /\ keys_left > 0
    /\ keys_left' = keys_left - 1
    /\ AppKey(key)
    /\ StKey(key)
    /\ UNCHANGED <<cli_pc, cli_todo, app_pc, write_guards, read_guards, returned,
                   codec, unrendered>>

Next == \E key \in KeyEvents : KeyStep(key)

Spec == Init /\ [][Next]_vars

\* ------------------------------------------------- the two host loops
\* The statements of one handle_key_event call, in the order it runs them.
\* Each is one write to the App behind the write guard.
Stmt(op, ch) == [op |-> op, ch |-> ch]

handle_key_event_stmts(a, key) ==
    IF a.input_mode = "Normal"
    THEN IF key.code = "e" THEN <<Stmt("mode_editing", "")>>
         ELSE IF key.code = "q" THEN <<Stmt("terminate", "")>>
         ELSE IF key.code = "c" /\ key.control THEN <<Stmt("terminate", "")>>
         ELSE <<>>
    ELSE IF key.kind = "Press"
    THEN IF key.code = "Enter"
         THEN <<Stmt("messages_push", ""), Stmt("input_clear", ""),
                Stmt("reset_cursor", "")>>
         ELSE IF key.code \in Chars
              THEN IF enter_char_panics(a) THEN <<Stmt("panic", "")>>
                   ELSE <<Stmt("input_insert", key.code),
                          Stmt("move_cursor_right", "")>>
         ELSE IF key.code = "Backspace"
              THEN IF a.cursor_position # 0
                   THEN <<Stmt("input_without_char", ""),
                          Stmt("move_cursor_left", "")>>
                   ELSE <<>>
         ELSE IF key.code = "Left" THEN <<Stmt("move_cursor_left", "")>>
         ELSE IF key.code = "Right" THEN <<Stmt("move_cursor_right", "")>>
         ELSE IF key.code = "Esc" THEN <<Stmt("mode_normal", "")>>
         ELSE <<>>
    ELSE <<>>

\* the App after one statement
run_stmt(a, stmt) ==
    CASE stmt.op = "mode_editing" -> [a EXCEPT !.input_mode = "Editing"]
      [] stmt.op = "mode_normal" -> [a EXCEPT !.input_mode = "Normal"]
      [] stmt.op = "messages_push" -> messages_push(a)
      [] stmt.op = "input_clear" -> input_clear(a)
      [] stmt.op = "reset_cursor" -> reset_cursor(a)
      [] stmt.op = "input_insert" -> input_insert(a, stmt.ch)
      [] stmt.op = "input_without_char" -> input_without_char(a)
      [] stmt.op = "move_cursor_left" -> move_cursor_left(a)
      [] stmt.op = "move_cursor_right" -> move_cursor_right(a)
      [] OTHER -> a

\* the App after all the statements of stmts, in order
RECURSIVE run_stmts(_, _)
run_stmts(a, stmts) ==
    IF stmts = <<>> THEN a ELSE run_stmts(run_stmt(a, Head(stmts)), Tail(stmts))

\* The statements, run one by one, are the call: for every key event they
\* end in the App handle_key_event gives, terminate and panic included.
StmtsAreTheCall ==
    \A key \in KeyEvents :
        LET stmts == handle_key_event_stmts(app, key)
            ops == {stmts[i].op : i \in 1..Len(stmts)}
            r == handle_key_event(app, key)
        IN  /\ r.panicked <=> "panic" \in ops
            /\ r.terminate <=> "terminate" \in ops
            /\ ~r.panicked => run_stmts(app, stmts) = r.app

\* The key events the key source delivers to the cli main_loop: every key
\* pressed, the quit chord, and the release of Enter.
HostKeys ==
    {Press(code) : code \in KeyCodes \ {"Tab", "Left"}}
        \cup {[code |-> "c", control |-> TRUE, kind |-> "Press"], Release("Enter")}

\* tokio RwLock: write() is granted when no guard is held, read() when no
\* write guard is held
can_write == write_guards = {} /\ read_guards = {}

can_read == write_guards = {}

\* cli::main_loop, select!: the ticker branch
CliTick ==
    /\ cli_pc = "select"
    /\ cli_pc' = "read"
    /\ UNCHANGED <<editor_vars, cli_todo, app_pc, write_guards, read_guards,
                   keys_left, returned, codec, unrendered>>

\* select!: crossterm_events.next() yields a key event
CliKeyEvent ==
    /\ cli_pc = "select"
    /\ keys_left > 0
    /\ keys_left' = keys_left - 1
    /\ cli_pc' = "write"
    /\ UNCHANGED <<editor_vars, cli_todo, app_pc, write_guards, read_guards,
                   returned, codec, unrendered>>

\* select!: interrupt_rx.recv() yields Ok(interrupted): break interrupted
CliInterrupted ==
    /\ cli_pc = "select"
    /\ interrupt["cli"] # "none"
    /\ returned' = [returned EXCEPT !["cli"] = interrupt["cli"]]
    /\ interrupt' = [interrupt EXCEPT !["cli"] = "none"]
    /\ cli_pc' = "done"
    /\ UNCHANGED <<app, app_out, st, st_out, cli_todo, app_pc, write_guards,
                   read_guards, keys_left, codec, unrendered>>

\* app.write().await is granted and handle_key_event(key) is entered. (The
\* key event was taken from the stream in CliKeyEvent; nothing reads it
\* before this point, so its value is chosen here.)
CliWrite(key) ==
    /\ cli_pc = "write"
    /\ can_write
    /\ write_guards' = write_guards \cup {"cli"}
    /\ cli_todo' = handle_key_event_stmts(app, key)
    /\ cli_pc' = "handle"
    /\ unrendered' = unrendered + 1
    /\ UNCHANGED <<editor_vars, app_pc, read_guards, keys_left, returned, codec>>

\* handle_key_event runs its next statement
CliStmt ==
    /\ cli_pc = "handle"
    /\ cli_todo # <<>>
    /\ Head(cli_todo).op # "panic"
    /\ app' = run_stmt(app, Head(cli_todo))
    /\ interrupt' = IF Head(cli_todo).op = "terminate"
                     THEN terminate(interrupt, "UserInt") ELSE interrupt
    /\ cli_todo' = Tail(cli_todo)
    /\ UNCHANGED <<app_out, st, st_out, cli_pc, app_pc, write_guards,
                   read_guards, keys_left, returned, codec, unrendered>>

\* String::insert panics: the task unwinds, which drops the write guard
CliPanic ==
    /\ cli_pc = "handle"
    /\ cli_todo # <<>>
    /\ Head(cli_todo).op = "panic"
    /\ app_out' = "panicked"
    /\ cli_todo' = <<>>
    /\ write_guards' = write_guards \ {"cli"}
    /\ cli_pc' = "panicked"
    /\ UNCHANGED <<app, interrupt, st, st_out, app_pc, read_guards, keys_left,
                   returned, codec, unrendered>>

\* a slip: the write guard outlives the select! arm
CliReturn_keeps_guard ==
    /\ cli_pc = "handle"
    /\ cli_todo = <<>>
    /\ app_out' = "returned"
    /\ cli_pc' = "read"
    /\ UNCHANGED <<app, interrupt, st, st_out, cli_todo, app_pc, write_guards,
                   read_guards, keys_left, returned, codec, unrendered>>

\* handle_key_event returns and the write guard is dropped
CliReturn ==
    /\ cli_pc = "handle"
    /\ cli_todo = <<>>
    /\ app_out' = "returned"
    /\ write_guards' = write_guards \ {"cli"}
    /\ cli_pc' = "read"
    /\ UNCHANGED <<app, interrupt, st, st_out, cli_todo, app_pc, read_guards,
                   keys_left, returned, codec, unrendered>>

\* app.read().await is granted
CliRead ==
    /\ cli_pc = "read"
    /\ can_read
    /\ read_guards' = read_guards \cup {"cli"}
    /\ cli_pc' = "draw"
    /\ UNCHANGED <<editor_vars, cli_todo, app_pc, write_guards, keys_left,
                   returned, codec, unrendered>>

\* terminal.draw(..) renders the App; the read guard is dropped
CliDraw ==
    /\ cli_pc = "draw"
    /\ read_guards' = read_guards \ {"cli"}
    /\ cli_pc' = "select"
    /\ unrendered' = 0
    /\ UNCHANGED <<editor_vars, cli_todo, app_pc, write_guards, keys_left,
                   returned, codec>>

\* app::main_loop, select!: the ticker branch
AppTick ==
    /\ app_pc = "select"
    /\ app.timer < MaxTicks
    /\ app_pc' = "write"
    /\ UNCHANGED <<editor_vars, cli_pc, cli_todo, write_guards, read_guards,
                   keys_left, returned, codec, unrendered>>

\* a slip: the timer loop goes on without waiting for the lock
AppWrite_unguarded ==
    /\ app_pc = "write"
    /\ write_guards' = write_guards \cup {"app"}
    /\ app_pc' = "increment"
    /\ UNCHANGED <<editor_vars, cli_pc, cli_todo, read_guards, keys_left,
                   returned, codec, unrendered>>

\* app.write().await is granted
AppWrite ==
    /\ app_pc = "write"
    /\ can_write
    /\ write_guards' = write_guards \cup {"app"}
    /\ app_pc' = "increment"
    /\ UNCHANGED <<editor_vars, cli_pc, cli_todo, read_guards, keys_left,
                   returned, codec, unrendered>>

increment_timer(a) == [a EXCEPT !.timer = a.timer + 1]

\* app.increment_timer(); the write guard is dropped
AppIncrement ==
    /\ app_pc = "increment"
    /\ app' = increment_timer(app)
    /\ write_guards' = write_guards \ {"app"}
    /\ app_pc' = "select"
    /\ UNCHANGED <<app_out, interrupt, st, st_out, cli_pc, cli_todo,
                   read_guards, keys_left, returned, codec, unrendered>>

\* select!: interrupt_rx.recv() yields Ok(interrupted): break interrupted
AppInterrupted ==
    /\ app_pc = "select"
    /\ interrupt["app"] # "none"
    /\ returned' = [returned EXCEPT !["app"] = interrupt["app"]]
    /\ interrupt' = [interrupt EXCEPT !["app"] = "none"]
    /\ app_pc' = "done"
    /\ UNCHANGED <<app, app_out, st, st_out, cli_pc, cli_todo, write_guards,
                   read_guards, keys_left, codec, unrendered>>

HostNext ==
    \/ CliTick
    \/ CliKeyEvent
    \/ CliInterrupted
    \/ \E key \in HostKeys : CliWrite(key)
    \/ CliStmt
    \/ CliPanic
    \/ CliReturn
    \/ CliRead
    \/ CliDraw
    \/ AppTick
    \/ AppWrite
    \/ AppIncrement
    \/ AppInterrupted

HostInit == EditorInit /\ keys_left = MaxHostKeys

HostSpec == HostInit /\ [][HostNext]_vars

\* The scheduling of the two tasks. The tokio runtime polls a task that can
\* go on, so each step of a loop body is taken once it stays possible. The
\* RwLock queues its waiters in order of arrival, so a write() or read() that
\* can be granted again and again is granted. select! polls its branches in
\* random order, so a loop that comes back to its select! with the interrupt
\* waiting each time takes the interrupt branch at last. Nothing obliges the
\* key source to deliver a key or the ticker to tick.
HostFairness ==
    /\ WF_vars(CliStmt)
    /\ WF_vars(CliPanic)
    /\ WF_vars(CliReturn)
    /\ WF_vars(CliDraw)
    /\ WF_vars(AppIncrement)
    /\ SF_vars(\E key \in HostKeys : CliWrite(key))
    /\ SF_vars(CliRead)
    /\ SF_vars(AppWrite)
    /\ SF_vars(CliInterrupted)
    /\ SF_vars(AppInterrupted)

HostFairSpec == HostSpec /\ HostFairness

\* ------------------------------------------------------ the message codec
\* comms/src/command.rs and comms/src/event.rs: the types, and what their
\* derived Serialize / Deserialize and serde_json do with them. Strings,
\* identifiers and JSON texts are sequences of characters. A value is
\* [type, variant, fields], the fields in declaration order. A parsed JSON
\* object is the sequence of its members <<key, value>> in text order; a
\* member value is <<"string", s>>, <<"number", digits>> or <<"null", <<>>>>.

Quote == "\""

Backslash == "\\"

Digits == {"0", "1", "2", "3", "4", "5", "6", "7", "8", "9"}

\* the strings the fields are drawn from: empty, plain, and one that needs
\* escaping
FieldStrings == {<<>>, <<"t", "e", "s", "t">>, <<"a", Quote, Backslash>>}

Types == {"UserCommand", "Event"}

Login == <<"L", "o", "g", "i", "n">>

JoinRoom == <<"J", "o", "i", "n", "R", "o", "o", "m">>

LeaveRoom == <<"L", "e", "a", "v", "e", "R", "o", "o", "m">>

SendMessage == <<"S", "e", "n", "d", "M", "e", "s", "s", "a", "g", "e">>

Quit == <<"Q", "u", "i", "t">>

RoomParticipation == <<"R", "o", "o", "m", "P", "a", "r", "t", "i", "c", "i", "p", "a", "t", "i", "o", "n">>

UserMessage == <<"U", "s", "e", "r", "M", "e", "s", "s", "a", "g", "e">>

Joined == <<"J", "o", "i", "n", "e", "d">>

Left == <<"L", "e", "f", "t">>

\* the variants of each enum, in declaration order
variants(type) ==
    IF type = "UserCommand"
    THEN <<Login, JoinRoom, LeaveRoom, SendMessage, Quit>>
    ELSE <<RoomParticipation, UserMessage>>

RoomParticipationStatus == <<Joined, Left>>

is_uppercase(ch) ==
    ch \in {"A", "B", "C", "D", "E", "F", "G", "H", "I", "J", "K", "L", "M",
            "N", "O", "P", "Q", "R", "S", "T", "U", "V", "W", "X", "Y", "Z"}

to_ascii_lowercase(ch) ==
    CASE ch = "A" -> "a"
      [] ch = "B" -> "b"
      [] ch = "C" -> "c"
      [] ch = "D" -> "d"
      [] ch = "E" -> "e"
      [] ch = "F" -> "f"
      [] ch = "G" -> "g"
      [] ch = "H" -> "h"
      [] ch = "I" -> "i"
      [] ch = "J" -> "j"
      [] ch = "K" -> "k"
      [] ch = "L" -> "l"
      [] ch = "M" -> "m"
      [] ch = "N" -> "n"
      [] ch = "O" -> "o"
      [] ch = "P" -> "p"
      [] ch = "Q" -> "q"
      [] ch = "R" -> "r"
      [] ch = "S" -> "s"
      [] ch = "T" -> "t"
      [] ch = "U" -> "u"
      [] ch = "V" -> "v"
      [] ch = "W" -> "w"
      [] ch = "X" -> "x"
      [] ch = "Y" -> "y"
      [] ch = "Z" -> "z"
      [] OTHER -> ch

\* #[serde(rename_all = "snake_case")] of a variant name: an upper-case
\* letter becomes lower case, after a '_' unless it is the first letter
RECURSIVE snake_case_from(_, _)
snake_case_from(ident, i) ==
    IF i > Len(ident) THEN <<>>
    ELSE (IF is_uppercase(ident[i]) /\ i > 1 THEN <<"_">> ELSE <<>>)
            \o <<to_ascii_lowercase(ident[i])>>
            \o snake_case_from(ident, i + 1)

snake_case(ident) == snake_case_from(ident, 1)

\* #[serde(tag = "t")]
tag == <<"t">>

\* #[serde(rename = "r")], "u", "c", "s"
Key_r == <<"r">>

Key_u == <<"u">>

Key_c == <<"c">>

Key_s == <<"s">>

Field(name, key, of) == [name |-> name, key |-> key, of |-> of]

\* a slip: SendMessageCommand declares content before room
struct_fields_content_first(variant) ==
    CASE variant = Login -> <<Field("username", Key_u, "String")>>
      [] variant = JoinRoom -> <<Field("room", Key_r, "String")>>
      [] variant = LeaveRoom -> <<Field("room", Key_r, "String")>>
      [] variant = SendMessage ->
            <<Field("content", Key_c, "String"), Field("room", Key_r, "String")>>
      [] variant = Quit -> <<>>
      [] variant = RoomParticipation ->
            <<Field("room", Key_r, "String"), Field("username", Key_u, "String"),
              Field("status", Key_s, "RoomParticipationStatus")>>
      [] variant = UserMessage ->
            <<Field("room", Key_r, "String"), Field("username", Key_u, "String"),
              Field("content", Key_c, "String")>>

\* the fields of each variant's struct, in declaration order, each with its
\* #[serde(rename = ..)] key and its type
struct_fields(variant) ==
    CASE variant = Login -> <<Field("username", Key_u, "String")>>
      [] variant = JoinRoom -> <<Field("room", Key_r, "String")>>
      [] variant = LeaveRoom -> <<Field("room", Key_r, "String")>>
      [] variant = SendMessage ->
            <<Field("room", Key_r, "String"), Field("content", Key_c, "String")>>
      [] variant = Quit -> <<>>
      [] variant = RoomParticipation ->
            <<Field("room", Key_r, "String"), Field("username", Key_u, "String"),
              Field("status", Key_s, "RoomParticipationStatus")>>
      [] variant = UserMessage ->
            <<Field("room", Key_r, "String"), Field("username", Key_u, "String"),
              Field("content", Key_c, "String")>>

Elems(seq) == {seq[i] : i \in 1..Len(seq)}

\* the values a field of a type can hold
FieldValues(of) ==
    IF of = "String" THEN FieldStrings ELSE Elems(RoomParticipationStatus)

\* all sequences of field values for the fields fs
RECURSIVE FieldSeqs(_)
FieldSeqs(fs) ==
    IF fs = <<>> THEN {<<>>}
    ELSE {<<x>> \o rest : x \in FieldValues(fs[1].of), rest \in FieldSeqs(Tail(fs))}

\* every constructible UserCommand and Event
Values ==
    UNION {UNION {{[type |-> type, variant |-> variant, fields |-> fields] :
                       fields \in FieldSeqs(struct_fields(variant))} :
                  variant \in Elems(variants(type))} :
           type \in Types}

Str(s) == <<"string", s>>

Num(digits) == <<"number", digits>>

Null == <<"null", <<>>>>

\* Serialize of one field: a String as a JSON string, a status by its
\* snake_case name
serialize_field(field, x) ==
    IF field.of = "String" THEN Str(x) ELSE Str(snake_case(x))

\* Serialize of a value: the tag first, then the struct's fields in order
serialize(v) ==
    LET fs == struct_fields(v.variant)
    IN  <<<<tag, Str(snake_case(v.variant))>>>>
            \o [i \in 1..Len(fs) |-> <<fs[i].key, serialize_field(fs[i], v.fields[i])>>]

\* serde_json's writer: '"' and '\' are written after a '\'
RECURSIVE format_escaped_str_contents(_)
format_escaped_str_contents(str) ==
    IF str = <<>> THEN <<>>
    ELSE (IF Head(str) \in {Quote, Backslash} THEN <<Backslash>> ELSE <<>>)
            \o <<Head(str)>> \o format_escaped_str_contents(Tail(str))

\* a slip: a string is written between the quotes as it stands
format_escaped_str_raw(str) == <<Quote>> \o str \o <<Quote>>

format_escaped_str(str) == <<Quote>> \o format_escaped_str_contents(str) \o <<Quote>>

\* the compact text of a member value
json_value(x) ==
    CASE x[1] = "string" -> format_escaped_str(x[2])
      [] x[1] = "number" -> x[2]
      [] x[1] = "null" -> <<"n", "u", "l", "l">>

\* the compact text of the members from the i-th on, ',' between them
RECURSIVE json_members(_, _)
json_members(members, i) ==
    IF i > Len(members) THEN <<>>
    ELSE (IF i > 1 THEN <<",">> ELSE <<>>)
            \o format_escaped_str(members[i][1]) \o <<":">> \o json_value(members[i][2])
            \o json_members(members, i + 1)

json_object(members) == <<"{">> \o json_members(members, 1) \o <<"}">>

\* serde_json::to_string
to_string(v) == json_object(serialize(v))

\* ---- serde_json's reader, for objects of strings, integers and nulls

ParseErr == [ok |-> FALSE, value |-> <<>>, next |-> 0]

ParseOk(value, next) == [ok |-> TRUE, value |-> value, next |-> next]

At(text, i) == IF i <= Len(text) THEN text[i] ELSE "EOF"

\* the position of the first character from i on that is no white space
RECURSIVE parse_whitespace(_, _)
parse_whitespace(text, i) ==
    IF At(text, i) = " " THEN parse_whitespace(text, i + 1) ELSE i

\* the characters of a string up to its closing quote, escapes undone
RECURSIVE parse_str_contents(_, _, _)
parse_str_contents(text, i, acc) ==
    CASE At(text, i) = "EOF" -> ParseErr
      [] At(text, i) = Quote -> ParseOk(acc, i + 1)
      [] At(text, i) = Backslash ->
            IF At(text, i + 1) \in {Quote, Backslash}
            THEN parse_str_contents(text, i + 2, Append(acc, At(text, i + 1)))
            ELSE ParseErr
      [] OTHER -> parse_str_contents(text, i + 1, Append(acc, text[i]))

parse_str(text, i) ==
    IF At(text, i) = Quote THEN parse_str_contents(text, i + 1, <<>>) ELSE ParseErr

RECURSIVE parse_integer(_, _, _)
parse_integer(text, i, acc) ==
    IF At(text, i) \in Digits
    THEN parse_integer(text, i + 1, Append(acc, text[i]))
    ELSE ParseOk(Num(acc), i)

parse_value(text, i) ==
    CASE At(text, i) = Quote ->
            LET str == parse_str(text, i)
            IN  IF str.ok THEN ParseOk(Str(str.value), str.next) ELSE ParseErr
      [] At(text, i) \in Digits -> parse_integer(text, i, <<>>)
      [] At(text, i) = "n" ->
            IF <<At(text, i + 1), At(text, i + 2), At(text, i + 3)>> = <<"u", "l", "l">>
            THEN ParseOk(Null, i + 4)
            ELSE ParseErr
      [] OTHER -> ParseErr

\* the members of an object from position i, after those of acc, up to '}'
RECURSIVE parse_members(_, _, _)
parse_members(text, i, acc) ==
    LET key == parse_str(text, parse_whitespace(text, i))
    IN  IF ~key.ok THEN ParseErr
        ELSE LET colon == parse_whitespace(text, key.next)
             IN  IF At(text, colon) # ":" THEN ParseErr
                 ELSE LET x == parse_value(text, parse_whitespace(text, colon + 1))
                      IN  IF ~x.ok THEN ParseErr
                          ELSE LET more == parse_whitespace(text, x.next)
                                   members == Append(acc, <<key.value, x.value>>)
                               IN  CASE At(text, more) = "," ->
                                            parse_members(text, more + 1, members)
                                     [] At(text, more) = "}" ->
                                            ParseOk(members, more + 1)
                                     [] OTHER -> ParseErr

\* the members of the object that is the whole text
parse_object(text) ==
    LET open == parse_whitespace(text, 1)
    IN  IF At(text, open) # "{" THEN ParseErr
        ELSE LET first == parse_whitespace(text, open + 1)
                 object == IF At(text, first) = "}"
                           THEN ParseOk(<<>>, first + 1)
                           ELSE parse_members(text, first, <<>>)
             IN  IF object.ok /\ parse_whitespace(text, object.next) = Len(text) + 1
                 THEN object
                 ELSE ParseErr

\* ---- Deserialize

HasKey(members, key) == \E i \in 1..Len(members) : members[i][1] = key

Keys(members) == {members[i][1] : i \in 1..Len(members)}

DistinctKeys(members) == Cardinality(Keys(members)) = Len(members)

Lookup(members, key) ==
    members[CHOOSE i \in 1..Len(members) : members[i][1] = key][2]

Ok(v) == [ok |-> TRUE, value |-> v, error |-> ""]

Err(error) == [ok |-> FALSE, value |-> <<>>, error |-> error]

\* Deserialize of one field from a member value
deserialize_field(field, x) ==
    IF x[1] # "string" THEN Err("invalid type")
    ELSE IF field.of = "String" THEN Ok(x[2])
    ELSE IF \E name \in Elems(RoomParticipationStatus) : snake_case(name) = x[2]
    THEN Ok(CHOOSE name \in Elems(RoomParticipationStatus) : snake_case(name) = x[2])
    ELSE Err("unknown variant")

\* the members that are a field of the struct and do not deserialize as it
FieldErrors(fs, members) ==
    {i \in 1..Len(members) :
        \E k \in 1..Len(fs) :
            /\ fs[k].key = members[i][1]
            /\ ~deserialize_field(fs[k], members[i][2]).ok}

Min(S) == CHOOSE x \in S : \A y \in S : x <= y

\* a slip: a missing field is filled with its default, as #[serde(default)]
deserialize_struct_default(type, variant, members) ==
    LET fs == struct_fields(variant)
        bad == FieldErrors(fs, members)
    IN  IF bad # {}
        THEN LET i == Min(bad)
                 k == CHOOSE k \in 1..Len(fs) : fs[k].key = members[i][1]
             IN  Err(deserialize_field(fs[k], members[i][2]).error)
        ELSE Ok([type |-> type, variant |-> variant,
                 fields |-> [k \in 1..Len(fs) |->
                     IF HasKey(members, fs[k].key)
                     THEN deserialize_field(fs[k], Lookup(members, fs[k].key)).value
                     ELSE IF fs[k].of = "String" THEN <<>> ELSE Joined]])

\* Deserialize of a variant's struct from the members of an object with
\* distinct keys: an ill-typed member fails where it stands, a missing field
\* at the end of the object; members with other keys are skipped. The unit
\* struct QuitCommand deserializes from the tag alone: with further members
\* the object is a map where a unit struct is expected.
deserialize_struct(type, variant, members) ==
    LET fs == struct_fields(variant)
        bad == FieldErrors(fs, members)
    IN  IF fs = <<>>
        THEN IF Len(members) > 1 THEN Err("invalid type")
             ELSE Ok([type |-> type, variant |-> variant, fields |-> <<>>])
        ELSE IF bad # {}
        THEN LET i == Min(bad)
                 k == CHOOSE k \in 1..Len(fs) : fs[k].key = members[i][1]
             IN  Err(deserialize_field(fs[k], members[i][2]).error)
        ELSE IF \E k \in 1..Len(fs) : ~HasKey(members, fs[k].key)
        THEN Err("missing field")
        ELSE Ok([type |-> type, variant |-> variant,
                 fields |-> [k \in 1..Len(fs) |->
                     deserialize_field(fs[k], Lookup(members, fs[k].key)).value]])

\* serde_json::from_str::<type>: the text must parse, the tag must be there,
\* be a string and name a variant of the type
from_str(type, text) ==
    LET object == parse_object(text)
        members == object.value
    IN  IF ~object.ok THEN Err("syntax")
        ELSE IF ~HasKey(members, tag) THEN Err("missing field")
        ELSE IF Lookup(members, tag)[1] # "string" THEN Err("invalid type")
        ELSE LET named == {variant \in Elems(variants(type)) :
                              snake_case(variant) = Lookup(members, tag)[2]}
             IN  IF named = {} THEN Err("unknown variant")
                 ELSE deserialize_struct(type, CHOOSE variant \in named : TRUE,
                                         members)

\* ---- the texts a transport can deliver: every encoded value; the same with
\* its members in reverse order, with one member dropped, with one member's
\* value a number, a null or another string, with a member of an unknown key
\* added, cut short, or followed by a stray
\* character; and a few texts written by hand

Without(members, i) == SubSeq(members, 1, i - 1) \o SubSeq(members, i + 1, Len(members))

Reverse(members) == [i \in 1..Len(members) |-> members[Len(members) + 1 - i]]

Bogus == <<"b", "o", "g", "u", "s">>

MemberLists(v) ==
    LET m == serialize(v)
    IN  {m, Reverse(m)}
            \cup {Without(m, i) : i \in 1..Len(m)}
            \cup {[m EXCEPT ![i] = <<m[i][1], x>>] :
                      i \in 1..Len(m), x \in {Num(<<"1">>), Null, Str(Bogus)}}
            \cup {m \o <<<<<<"x">>, Num(<<"1">>)>>>>}

Texts ==
    UNION {{json_object(m) : m \in MemberLists(v)}
               \cup {SubSeq(to_string(v), 1, Len(to_string(v)) - 1),
                     to_string(v) \o <<"}">>}
           : v \in Values}
        \cup {<<>>, <<"{", " ", "}">>, Bogus,
              <<" ", "{", " ", Quote, "t", Quote, " ", ":", " ",
                Quote, "q", "u", "i", "t", Quote, " ", "}", " ">>}

\* a value is constructed
Construct(v) ==
    /\ codec.step = "start"
    /\ codec' = [step |-> "constructed", value |-> v]
    /\ UNCHANGED <<editor_vars, host_vars, unrendered>>

\* let serialized = serde_json::to_string(&value)
Encode ==
    /\ codec.step = "constructed"
    /\ codec' = [step |-> "encoded", value |-> codec.value,
                 text |-> to_string(codec.value)]
    /\ UNCHANGED <<editor_vars, host_vars, unrendered>>

\* serde_json::from_str(&serialized), as the type of the value
Decode ==
    /\ codec.step = "encoded"
    /\ codec' = [step |-> "decoded", value |-> codec.value, text |-> codec.text,
                 result |-> from_str(codec.value.type, codec.text)]
    /\ UNCHANGED <<editor_vars, host_vars, unrendered>>

\* serde_json::from_str of a text the transport delivered
Receive(type, text) ==
    /\ codec.step = "start"
    /\ codec' = [step |-> "received", type |-> type, text |-> text,
                 result |-> from_str(type, text)]
    /\ UNCHANGED <<editor_vars, host_vars, unrendered>>

CodecNext ==
    \/ \E v \in Values : Construct(v)
    \/ Encode
    \/ Decode
    \/ \E type \in Types, text \in Texts : Receive(type, text)

CodecSpec == Init /\ [][CodecNext]_vars

\* ------------------------------------------------------ claims: vocabulary
\* b with c put before the char with index i (0-based), counted in chars
InsertAtChar(b, i, c) == chars_take(b, i) \o <<c>> \o chars_skip(b, i)

\* b without the char with index i (0-based), counted in chars
RemoveAtChar(b, i) == chars_take(b, i) \o chars_skip(b, i + 1)

\* the editor fields the two implementations share
Editor(a) ==
    [input |-> a.input, cursor_position |-> a.cursor_position,
     input_mode |-> a.input_mode, messages |-> a.messages]

PressedIn(a, key, mode) == a.input_mode = mode /\ key.kind = "Press"

\* C1: in every reachable state 0 <= cursor <= length(buffer), the length
\* counted in chars, in both editors.
C1_CursorWithinBuffer ==
    /\ 0 <= app.cursor_position /\ app.cursor_position <= Len(app.input)
    /\ 0 <= st.cursor_position /\ st.cursor_position <= Len(st.input)

\* C2: a pressed char key c in Editing mode, buffer b and cursor i, gives
\* the buffer (first i chars of b) + c + (rest of b) and cursor i + 1; the
\* mode stays Editing and submitted_lines is unchanged.
C2_Inserted(a, b, c) ==
    /\ b.input = InsertAtChar(a.input, a.cursor_position, c)
    /\ b.cursor_position = a.cursor_position + 1
    /\ b.input_mode = "Editing"
    /\ b.messages = a.messages

C2_InsertAtCursor ==
    [][\A key \in KeyEvents :
        (KeyStep(key) /\ PressedIn(app, key, "Editing") /\ key.code \in Chars)
            => C2_Inserted(app, app', key.code) /\ C2_Inserted(st, st', key.code)]_vars

\* C3: every key event completes normally: no editor transition aborts.
C3_NoTransitionAborts == app_out # "panicked" /\ st_out # "panicked"

\* C4: a pressed Backspace in Editing mode with cursor i > 0 removes exactly
\* the one char at char position i - 1 and sets the cursor to i - 1; with
\* cursor 0 it changes nothing; mode and submitted_lines are unchanged.
C4_Deleted(a, b) ==
    /\ a.cursor_position > 0 =>
          /\ Len(b.input) = Len(a.input) - 1
          /\ b.input = RemoveAtChar(a.input, a.cursor_position - 1)
          /\ b.cursor_position = a.cursor_position - 1
    /\ a.cursor_position = 0 =>
          b.input = a.input /\ b.cursor_position = 0
    /\ b.input_mode = "Editing"
    /\ b.messages = a.messages

C4_BackspaceRemovesOneChar ==
    [][\A key \in KeyEvents :
        (KeyStep(key) /\ PressedIn(app, key, "Editing") /\ key.code = "Backspace")
            => C4_Deleted(app, app') /\ C4_Deleted(st, st')]_vars

\* C5: in every reachable Editing state, pressing any char x and then
\* Backspace restores the buffer and the cursor.
C5_AppRestores(a, x) ==
    LET r1 == handle_key_event(a, Press(x))
        r2 == handle_key_event(r1.app, Press("Backspace"))
    IN  /\ ~r1.panicked
        /\ r2.app.input = a.input
        /\ r2.app.cursor_position = a.cursor_position

C5_StRestores(a, x) ==
    LET r1 == handle_event(a, Press(x))
        r2 == handle_event(r1.app, Press("Backspace"))
    IN  /\ r1.result = "Ok"
        /\ r2.app.input = a.input
        /\ r2.app.cursor_position = a.cursor_position

C5_InsertThenBackspaceIsIdentity ==
    /\ (app.input_mode = "Editing" /\ app_out # "panicked") =>
           \A x \in Chars : C5_AppRestores(app, x)
    /\ (st.input_mode = "Editing" /\ st_out # "panicked") =>
           \A x \in Chars : C5_StRestores(st, x)

\* C6: a pressed Enter in Editing mode appends the buffer as the new last
\* element of submitted_lines, empties the buffer, puts the cursor at 0 and
\* keeps the mode Editing, for an empty buffer too; it never fails.
C6_Submitted(a, b) ==
    /\ b.messages = Append(a.messages, a.input)
    /\ b.input = <<>>
    /\ b.cursor_position = 0
    /\ b.input_mode = "Editing"

C6_EnterSubmits ==
    [][\A key \in KeyEvents :
        (KeyStep(key) /\ PressedIn(app, key, "Editing") /\ key.code = "Enter")
            => /\ C6_Submitted(app, app') /\ app_out' = "returned"
               /\ C6_Submitted(st, st') /\ st_out' = "Ok"]_vars

\* a line of a multi-byte char has been submitted, and the editor is as
\* Enter leaves it
C6_Witness ==
    /\ app.messages = << <<"eacute">> >> /\ st.messages = app.messages
    /\ app.input = <<>> /\ app.cursor_position = 0
    /\ app.input_mode = "Editing" /\ app_out = "returned"

\* C7: in Normal mode no key event changes buffer, cursor or
\* submitted_lines; 'e' in Normal mode changes the mode to Editing and
\* nothing else; a pressed Escape in Editing mode changes the mode to
\* Normal and leaves buffer and cursor unchanged.
C7_Gated(a, b, key) ==
    /\ a.input_mode = "Normal" =>
          /\ b.input = a.input
          /\ b.cursor_position = a.cursor_position
          /\ b.messages = a.messages
    /\ (a.input_mode = "Normal" /\ key.code = "e") =>
          b = [a EXCEPT !.input_mode = "Editing"]
    /\ (PressedIn(a, key, "Editing") /\ key.code = "Esc") =>
          b = [a EXCEPT !.input_mode = "Normal"]

C7_ModeGating ==
    [][\A key \in KeyEvents :
        KeyStep(key) =>
            /\ C7_Gated(app, app', key) /\ C7_Gated(st, st', key)
            /\ (app.input_mode = "Normal" /\ key.code = "e") =>
                   interrupt' = interrupt /\ st_out' = "Ok"]_vars

\* back in Normal mode with a buffer and a cursor that Escape left alone,
\* where a Backspace, a char and an Enter would all change an Editing editor
C7_Witness ==
    /\ app.input_mode = "Normal" /\ st.input_mode = "Normal"
    /\ app.input = <<"q", "eacute">> /\ app.cursor_position = 1
    /\ Editor(app) = st

\* C8: in Normal mode 'q' and Ctrl+C each emit a terminate signal to the
\* caller and leave buffer, cursor, mode and submitted_lines unchanged, in
\* every editor implementation.
C8_IsQuit(key) == key.code = "q" \/ (key.code = "c" /\ key.control)

C8_QuitGating ==
    [][\A key \in KeyEvents :
        (KeyStep(key) /\ app.input_mode = "Normal" /\ C8_IsQuit(key))
            => /\ app' = app /\ interrupt' = [r \in Receivers |-> "UserInt"]
               /\ st' = st /\ st_out' = "Err"]_vars

\* C9: in Editing mode a key event that is not a Press changes nothing, so
\* a press followed by its release acts once; in Normal mode 'e' and the
\* quit keys act whatever the kind is.
C9_ReleaseAfterPress(a, code) ==
    LET r1 == handle_key_event(a, Press(code))
        r2 == handle_key_event(r1.app, Release(code))
        s1 == handle_event(Editor(a), Press(code))
        s2 == handle_event(s1.app, Release(code))
    IN  /\ ~r1.panicked => (r2.app = r1.app /\ ~r2.terminate)
        /\ s1.result = "Ok" => (s2.app = s1.app /\ s2.result = "Ok")

C9_PressReleaseFiltering ==
    [][/\ app.input_mode = "Editing" =>
             \A code \in KeyCodes : C9_ReleaseAfterPress(app, code)
       /\ \A key \in KeyEvents :
        KeyStep(key) =>
            /\ (app.input_mode = "Editing" /\ key.kind # "Press") =>
                  /\ app' = app /\ interrupt' = interrupt /\ app_out' = "returned"
                  /\ st' = st /\ st_out' = "Ok"
            /\ (app.input_mode = "Normal" /\ key.code = "e") =>
                  app'.input_mode = "Editing" /\ st'.input_mode = "Editing"
            /\ (app.input_mode = "Normal" /\ key.code = "q") =>
                  interrupt' = [r \in Receivers |-> "UserInt"] /\ st_out' = "Err"
            /\ (app.input_mode = "Normal" /\ key.code = "c" /\ key.control) =>
                  interrupt' = [r \in Receivers |-> "UserInt"]]_vars

\* an Editing editor in which the press of Backspace, of Enter and of a char
\* each change the editor and their release changes nothing
C9_Witness ==
    /\ app.input_mode = "Editing" /\ app.cursor_position > 0
    /\ \A code \in {"Backspace", "Enter", "q"} :
          /\ handle_key_event(app, Press(code)).app # app
          /\ handle_key_event(app, Release(code)).app = app
          /\ handle_event(st, Press(code)).app # st
          /\ handle_event(st, Release(code)).app = st

\* C10: a render never reads the App while a keystroke transition is
\* partially applied; there is at most one writer at a time and no reader
\* during a write.
C10_Rendering == cli_pc = "draw"

C10_AtomicForRenders ==
    /\ C10_Rendering =>
          /\ "cli" \in read_guards
          /\ write_guards = {}
          /\ cli_todo = <<>>
    /\ Cardinality(write_guards) <= 1
    /\ write_guards # {} => read_guards = {}
    /\ cli_todo # <<>> => write_guards = {"cli"}

\* a submit is half done (the line is pushed, the buffer not yet cleared)
\* while the timer loop waits for the write guard
C10_Witness ==
    /\ cli_todo # <<>> /\ Head(cli_todo).op = "input_clear"
    /\ app.input # <<>> /\ app.messages = <<app.input>>
    /\ app_pc = "write"

\* C11: a pressed Left in Editing mode sets the cursor to max(cursor-1, 0),
\* a pressed Right to min(cursor+1, length(buffer)), the length counted in
\* chars; neither changes the buffer, the mode or submitted_lines.
C11_Moved(a, b, code) ==
    /\ code = "Left" =>
          b.cursor_position =
              (IF a.cursor_position = 0 THEN 0 ELSE a.cursor_position - 1)
    /\ code = "Right" =>
          b.cursor_position =
              (IF a.cursor_position + 1 > Len(a.input) THEN Len(a.input)
               ELSE a.cursor_position + 1)
    /\ b.input = a.input
    /\ b.input_mode = a.input_mode
    /\ b.messages = a.messages

C11_LeftRightClamped ==
    [][\A key \in KeyEvents :
        (KeyStep(key) /\ PressedIn(app, key, "Editing")
            /\ key.code \in {"Left", "Right"})
            => C11_Moved(app, app', key.code) /\ C11_Moved(st, st', key.code)]_vars

\* C12: submitted_lines is append-only: it grows by exactly one element on
\* a pressed Enter in Editing mode and no other key event, and no timer
\* tick, changes it.
IsPrefix(s, t) == Len(s) <= Len(t) /\ SubSeq(t, 1, Len(s)) = s

C12_Appended(a, b, key) ==
    /\ IsPrefix(a.messages, b.messages)
    /\ Len(b.messages) =
          (IF PressedIn(a, key, "Editing") /\ key.code = "Enter"
           THEN Len(a.messages) + 1 ELSE Len(a.messages))

C12_AppendOnly ==
    [][/\ increment_timer(app).messages = app.messages
       /\ \A key \in KeyEvents :
              KeyStep(key) =>
                  C12_Appended(app, app', key) /\ C12_Appended(st, st', key)]_vars

\* two lines were submitted, the second one with an earlier one before it
C12_Witness ==
    /\ Len(app.messages) = 2 /\ app.messages[1] # app.messages[2]
    /\ st.messages = app.messages

\* ------------------------------------------------------ claims: the codec

\* the characters of a text, as one string
RECURSIVE TextString(_)
TextString(text) == IF text = <<>> THEN "" ELSE Head(text) \o TextString(Tail(text))

\* C13: decoding the encoding of a value gives the value back, for every
\* UserCommand and every Event over the field strings; two different
\* values (JoinRoom and LeaveRoom of one room, Joined and Left of one room
\* and user) never share an encoding.
C13_RoundTrip ==
    codec.step = "decoded" =>
        /\ codec.result = Ok(codec.value)
        /\ \A w \in Values : to_string(w) = codec.text => w = codec.value

C13_Witness ==
    /\ codec.step = "decoded"
    /\ codec.value.variant = LeaveRoom
    /\ codec.value.fields = <<<<"a", Quote, Backslash>>>>
    /\ codec.result.ok

\* the wire name of each variant and the key of each field, as the wire
\* format lists them
C14_Name(variant) ==
    CASE variant = Login -> "login"
      [] variant = JoinRoom -> "join_room"
      [] variant = LeaveRoom -> "leave_room"
      [] variant = SendMessage -> "send_message"
      [] variant = Quit -> "quit"
      [] variant = RoomParticipation -> "room_participation"
      [] variant = UserMessage -> "user_message"

C14_Keys(variant) ==
    CASE variant = Login -> <<"u">>
      [] variant = JoinRoom -> <<"r">>
      [] variant = LeaveRoom -> <<"r">>
      [] variant = SendMessage -> <<"r", "c">>
      [] variant = Quit -> <<>>
      [] variant = RoomParticipation -> <<"r", "u", "s">>
      [] variant = UserMessage -> <<"r", "u", "c">>

C14_FieldText(x) ==
    CASE x = Joined -> "\"joined\""
      [] x = Left -> "\"left\""
      [] OTHER -> TextString(format_escaped_str(x))

RECURSIVE C14_FieldsFrom(_, _)
C14_FieldsFrom(v, i) ==
    IF i > Len(v.fields) THEN ""
    ELSE ",\"" \o C14_Keys(v.variant)[i] \o "\":" \o C14_FieldText(v.fields[i])
            \o C14_FieldsFrom(v, i + 1)

C14_Expected(v) ==
    "{\"t\":\"" \o C14_Name(v.variant) \o "\"" \o C14_FieldsFrom(v, 1) \o "}"

C14_Test == <<"t", "e", "s", "t">>

\* C14: the encoding of a value is the tag "t" with the variant's wire name,
\* then the variant's fields in declaration order under r, u, c and s, and
\* nothing else; SendMessage{room: "test", content: "test"} and Quit encode
\* to the two literal texts.
C14_ByteExact ==
    codec.step = "encoded" =>
        /\ TextString(codec.text) = C14_Expected(codec.value)
        /\ (codec.value.variant = SendMessage /\ codec.value.fields = <<C14_Test, C14_Test>>)
              => TextString(codec.text) = "{\"t\":\"send_message\",\"r\":\"test\",\"c\":\"test\"}"
        /\ codec.value.variant = Quit => TextString(codec.text) = "{\"t\":\"quit\"}"

C14_Witness ==
    /\ codec.step = "encoded"
    /\ codec.value.variant = SendMessage
    /\ codec.value.fields = <<C14_Test, <<>>>>
    /\ TextString(codec.text) = "{\"t\":\"send_message\",\"r\":\"test\",\"c\":\"\"}"

\* what a received text asks of the decoder, read off its parsed members
C15_Parsed == parse_object(codec.text)

C15_TagNamesVariant ==
    /\ C15_Parsed.ok
    /\ \E i \in 1..Len(C15_Parsed.value) :
          /\ C15_Parsed.value[i][1] = <<"t">>
          /\ C15_Parsed.value[i][2][1] = "string"
          /\ C15_Parsed.value[i][2][2] \in
                {snake_case(variant) : variant \in Elems(variants(codec.type))}

C15_TagIsUnknown ==
    /\ C15_Parsed.ok
    /\ \E i \in 1..Len(C15_Parsed.value) :
          /\ C15_Parsed.value[i][1] = <<"t">>
          /\ C15_Parsed.value[i][2][1] = "string"
          /\ C15_Parsed.value[i][2][2] \notin
                {snake_case(variant) : variant \in Elems(variants(codec.type))}

C15_Variant ==
    CHOOSE variant \in Elems(variants(codec.type)) :
        <<<<"t">>, Str(snake_case(variant))>> \in Elems(C15_Parsed.value)

C15_FieldIsMissing ==
    /\ C15_TagNamesVariant
    /\ \E k \in 1..Len(struct_fields(C15_Variant)) :
          struct_fields(C15_Variant)[k].key \notin Keys(C15_Parsed.value)

C15_FieldIsNoString ==
    /\ C15_TagNamesVariant
    /\ \E k \in 1..Len(struct_fields(C15_Variant)), i \in 1..Len(C15_Parsed.value) :
          /\ C15_Parsed.value[i][1] = struct_fields(C15_Variant)[k].key
          /\ C15_Parsed.value[i][2][1] # "string"

C15_StatusIsUnknown ==
    /\ C15_TagNamesVariant
    /\ \E i \in 1..Len(C15_Parsed.value) :
          /\ C15_Variant = RoomParticipation
          /\ C15_Parsed.value[i][1] = <<"s">>
          /\ C15_Parsed.value[i][2] \notin {Str(<<"j", "o", "i", "n", "e", "d">>),
                                            Str(<<"l", "e", "f", "t">>)}

C15_UnitHasMembers ==
    /\ C15_TagNamesVariant
    /\ C15_Variant = Quit
    /\ Len(C15_Parsed.value) > 1

C15_FailsWith(error) == ~codec.result.ok /\ codec.result.error = error

\* the failures the claim names, and no value out of any of them
C15_NamedFailures ==
    /\ C15_TagIsUnknown => C15_FailsWith("unknown variant")
    /\ (C15_FieldIsMissing /\ ~C15_FieldIsNoString /\ ~C15_StatusIsUnknown)
          => C15_FailsWith("missing field")
    /\ (C15_FieldIsNoString /\ ~C15_StatusIsUnknown) => C15_FailsWith("invalid type")
    /\ ~codec.result.ok => codec.result.value = <<>>

C16_Emitted == \E r \in Receivers : interrupt[r] # "none"

C16_BothReturned == \A r \in Receivers : returned[r] = "UserInt"

\* C16: once the editor has emitted the terminate signal, both host loops
\* leave their loop and return the reason (the liveness half of the claim).
C16_QuitLeadsToShutdown == C16_Emitted ~> C16_BothReturned

\* the same, but for a cli task that has panicked in handle_key_event
C16_ShutdownUnlessPanicked ==
    C16_Emitted ~> (C16_BothReturned \/ (cli_pc = "panicked" /\ returned["app"] = "UserInt"))

\* a loop returns a reason only by taking it from its receiver, where a
\* broadcast has put it (the safety half of the claim)
C16_ReturnsAfterBroadcast ==
    [][\A r \in Receivers :
          returned'[r] # returned[r] =>
              /\ interrupt[r] = "UserInt"
              /\ returned'[r] = interrupt[r]]_vars

\* the cli task is between two iterations of its loop, or out of it
C17_Outside(pc) == pc \in {"select", "done", "panicked"}

\* C17: an iteration of the cli loop makes at most one handle_key_event call
\* and then renders once, the editor as the call left it, before the next
\* call; the one iteration that ends without a render is the one that
\* takes the interrupt and leaves the loop.
C17_ApplyThenRender ==
    [][/\ unrendered' <= 1
       /\ cli_pc \in {"read", "draw"} => Editor(app') = Editor(app)
       /\ (~C17_Outside(cli_pc) /\ C17_Outside(cli_pc')) =>
              /\ cli_pc = "draw"
              /\ "cli" \in read_guards
              /\ unrendered' = 0
       /\ (C17_Outside(cli_pc) /\ cli_pc' \in {"done", "panicked"} /\ cli_pc' # cli_pc) =>
              /\ interrupt["cli"] # "none"
              /\ returned'["cli"] = interrupt["cli"]]_vars

\* the same, but for the iteration in which handle_key_event panics
C17_ApplyThenRenderUnlessPanicked ==
    [][/\ unrendered' <= 1
       /\ cli_pc \in {"read", "draw"} => Editor(app') = Editor(app)
       /\ (~C17_Outside(cli_pc) /\ C17_Outside(cli_pc') /\ cli_pc' # "panicked") =>
              /\ cli_pc = "draw"
              /\ "cli" \in read_guards
              /\ unrendered' = 0
       /\ (C17_Outside(cli_pc) /\ cli_pc' \in {"done", "panicked"} /\ cli_pc' # cli_pc) =>
              /\ interrupt["cli"] # "none"
              /\ returned'["cli"] = interrupt["cli"]]_vars

\* ------------------------------------------------------ claims: two editors

\* C18: after every key event of every sequence from the initial state, the
\* App of state.rs and the App of app/mod.rs have the same mode, buffer,
\* cursor and submitted lines, and the one has panicked if the other has;
\* they differ only in how quit is reported.
C18_SameEditorState ==
    /\ Editor(app) = st
    /\ (app_out = "panicked") <=> (st_out = "panicked")

C18_Witness ==
    /\ C18_SameEditorState
    /\ st.input_mode = "Editing"
    /\ st.input = <<"eacute">>
    /\ st.cursor_position = 2
    /\ Len(st.messages) = 1
    /\ app_out = "returned"

\* in Editing mode no key event makes either editor report quit
C19_NoQuitInEditing ==
    [][\A key \in KeyEvents :
        (KeyStep(key) /\ app.input_mode = "Editing")
            => /\ ~handle_key_event(app, key).terminate
               /\ handle_event(st, key).result # "Err"]_vars

\* C19: in Editing mode no key event emits the terminate signal, and a
\* pressed 'q' and a pressed Ctrl+C insert 'q' and 'c' into the buffer at
\* the cursor, as any char key.
C19_QuitKeysAreCharsInEditing ==
    [][\A key \in KeyEvents :
        (KeyStep(key) /\ app.input_mode = "Editing")
            => /\ ~handle_key_event(app, key).terminate
               /\ handle_event(st, key).result # "Err"
               /\ (key.kind = "Press" /\ C8_IsQuit(key))
                    => /\ C2_Inserted(app, app', key.code)
                       /\ C2_Inserted(st, st', key.code)]_vars

\* ------------------------------------------------------ claims: the lock

\* who holds which guard, and where
C20_Guards ==
    /\ "cli" \in write_guards <=> cli_pc = "handle"
    /\ "cli" \in read_guards <=> cli_pc = "draw"
    /\ "app" \in write_guards <=> app_pc = "increment"
    /\ "app" \notin read_guards

\* C20: the cli loop has dropped its write guard when it asks for the read
\* guard, the app loop holds the write guard for the timer increment only,
\* every key event and every tick that waits for the write lock gets it,
\* and a tick adds one to timer and changes no other field.
C20_NoDeadlock ==
    /\ []C20_Guards
    /\ (cli_pc = "write") ~> (cli_pc = "handle")
    /\ (app_pc = "write") ~> (app_pc = "increment")
    /\ (cli_pc = "read") ~> (cli_pc = "draw")
    /\ [][(app_pc = "increment" /\ app_pc' # app_pc) =>
              /\ app'.timer = app.timer + 1
              /\ Editor(app') = Editor(app)
              /\ interrupt' = interrupt]_vars

C20_Witness ==
    /\ app_pc = "write"
    /\ cli_pc = "handle"
    /\ app.timer = 1
    /\ app.input_mode = "Editing"

====
